---- MODULE Spec2Model ----
(***************************************************************************)
(* A model of the JavaScript client of the Chroma vector store: the record *)
(* codec (Documents.ts: docsToParallelArrays, parallelArraysToDocs), the   *)
(* embedding resolver (computeEmbeddings), the query normalizer            *)
(* (docQueryToQueryDoc) and the client operations of ChromaClient.ts that  *)
(* use them.                                                               *)
(*                                                                         *)
(* JavaScript values.  An optional value (a field that may be undefined,   *)
(* an optional parameter) is the empty tuple when absent and the one-      *)
(* element tuple <<v>> when present, so that an absent array and a present *)
(* empty array are different values.  Strings are TLA+ strings, number     *)
(* arrays are sequences of integers.                                       *)
(***************************************************************************)
EXTENDS Integers, Sequences, FiniteSets, TLC

\* ------------------------------------------------------------------ bounds
\* Longest document batch of a call.
MaxDocs == 2
\* Longest array handed to parallelArraysToDocs.
MaxArrayLen == 2

\* ------------------------------------------------------------ JS values
Absent == <<>>
Some(v) == <<v>>
IsPresent(o) == o # Absent
Opt(S) == {Absent} \cup {Some(v) : v \in S}

\* Sequences over S of length 0..n.
SeqUpTo(S, n) == UNION {[1..k -> S] : k \in 0..n}

Ids == {"a", "b", "c"}
Vectors == {<<>>, <<1>>}
Texts == {"", "x", "y"}
MetadataValues == {"m"}

\* types.ts BaseChromaDoc: four optional fields.  `primitive` is present
\* only for a value that is a JavaScript number rather than an object (such
\* a value reaches the resolver through docQueryToQueryDoc's last return);
\* every property read on it yields undefined.
MakeDoc(id, embedding, contents, metadata) ==
    [id |-> id, embedding |-> embedding, contents |-> contents,
     metadata |-> metadata, primitive |-> Absent]

\* JavaScript truthiness of an optional string: undefined and "" are falsy.
TruthyString(o) == IsPresent(o) /\ o[1] # ""
\* JavaScript truthiness of an optional array or object: only undefined is
\* falsy, an empty array is truthy.
TruthyObject(o) == IsPresent(o)

\* Array.prototype.join(", ") as the sequence of the joined parts: an
\* undefined element is written as the empty string.
JoinParts(optionals) ==
    [i \in 1..Len(optionals) |->
        IF IsPresent(optionals[i]) THEN optionals[i][1] ELSE ""]

\* ------------------------------------------------------------ RecordCodec
\* The state of the loop of docsToParallelArrays: the four result arrays,
\* idSet and duplicateIds (a JavaScript Set keeps insertion order: a sequence
\* without repetitions).
EncodeStart ==
    [ids |-> <<>>, embeddings |-> <<>>, documents |-> <<>>, metadatas |-> <<>>,
     idSet |-> {}, duplicateIds |-> <<>>]

SetAdd(seq, v) ==
    IF \E i \in 1..Len(seq) : seq[i] = v THEN seq ELSE Append(seq, v)

\* One iteration of the for loop (Documents.ts lines 20-33).  No statement
\* of the loop adds to idSet.
EncodeStep(st, doc) ==
    IF doc.id \in st.idSet
    THEN [st EXCEPT !.duplicateIds = SetAdd(@, doc.id)]
    ELSE IF Len(st.duplicateIds) > 0
    THEN st
    ELSE [st EXCEPT !.ids = Append(@, doc.id),
                    !.embeddings = Append(@, doc.embedding),
                    !.documents = Append(@, doc.contents),
                    !.metadatas = Append(@, doc.metadata)]

RECURSIVE EncodeLoop(_, _, _)
EncodeLoop(documents, i, st) ==
    IF i > Len(documents) THEN st
    ELSE EncodeLoop(documents, i + 1, EncodeStep(st, documents[i]))

\* A variant that pushes an embedding only when the document has one.
docsToParallelArraysSkipAbsent(documents) ==
    LET st == EncodeLoop(documents, 1, EncodeStart)
        present == SelectSeq(st.embeddings, LAMBDA e : IsPresent(e))
    IN [threw |-> FALSE, message |-> <<>>,
        ids |-> st.ids, embeddings |-> present,
        documents |-> st.documents, metadatas |-> st.metadatas]

\* A variant that drops the last document of the batch.
docsToParallelArraysDropLast(documents) ==
    LET n  == IF Len(documents) = 0 THEN 0 ELSE Len(documents) - 1
        st == EncodeLoop(SubSeq(documents, 1, n), 1, EncodeStart)
    IN [threw |-> FALSE, message |-> <<>>,
        ids |-> st.ids, embeddings |-> st.embeddings,
        documents |-> st.documents, metadatas |-> st.metadatas]

\* docsToParallelArrays: the outcome of the call, either the exception
\* (threw, with the message "Duplicate ids found: " and the joined ids) or
\* the four arrays.
docsToParallelArrays(documents) ==
    LET st == EncodeLoop(documents, 1, EncodeStart) IN
    IF Len(st.duplicateIds) > 0
    THEN [threw |-> TRUE,
          message |-> <<"Duplicate ids found: ">> \o JoinParts(st.duplicateIds),
          ids |-> <<>>, embeddings |-> <<>>, documents |-> <<>>,
          metadatas |-> <<>>]
    ELSE [threw |-> FALSE, message |-> <<>>,
          ids |-> st.ids, embeddings |-> st.embeddings,
          documents |-> st.documents, metadatas |-> st.metadatas]

\* The argument object of parallelArraysToDocs: ids is required, the other
\* three arrays are optional.
MakeArrays(ids, embeddings, documents, metadatas) ==
    [ids |-> ids, embeddings |-> embeddings, documents |-> documents,
     metadatas |-> metadatas]

\* `array?.[index]`: undefined when the array is absent or too short.
At(optArray, index) ==
    IF IsPresent(optArray) /\ index <= Len(optArray[1])
    THEN optArray[1][index] ELSE Absent

LengthMismatchMessage ==
    <<"ids, embeddings, metadatas, and documents must all be the same length">>

\* A variant whose presence test treats an empty array as absent.
parallelArraysToDocsEmptyIsAbsent(arrays) ==
    LET ids == arrays.ids
        Given(a) == IsPresent(a) /\ Len(a[1]) > 0
    IN
    IF \/ (Given(arrays.embeddings) /\ Len(ids) # Len(arrays.embeddings[1]))
       \/ (Given(arrays.metadatas) /\ Len(ids) # Len(arrays.metadatas[1]))
       \/ (Given(arrays.documents) /\ Len(ids) # Len(arrays.documents[1]))
    THEN [threw |-> TRUE, message |-> LengthMismatchMessage, docs |-> <<>>]
    ELSE [threw |-> FALSE, message |-> <<>>,
          docs |-> [index \in 1..Len(ids) |->
                      MakeDoc(ids[index], At(arrays.embeddings, index),
                              At(arrays.documents, index),
                              At(arrays.metadatas, index))]]

\* parallelArraysToDocs: the outcome of the call.
parallelArraysToDocs(arrays) ==
    LET ids == arrays.ids IN
    IF \/ (TruthyObject(arrays.embeddings)
             /\ Len(ids) # Len(arrays.embeddings[1]))
       \/ (TruthyObject(arrays.metadatas)
             /\ Len(ids) # Len(arrays.metadatas[1]))
       \/ (TruthyObject(arrays.documents)
             /\ Len(ids) # Len(arrays.documents[1]))
    THEN [threw |-> TRUE, message |-> LengthMismatchMessage, docs |-> <<>>]
    ELSE [threw |-> FALSE, message |-> <<>>,
          docs |-> [index \in 1..Len(ids) |->
                      MakeDoc(ids[index], At(arrays.embeddings, index),
                              At(arrays.documents, index),
                              At(arrays.metadatas, index))]]

\* -------------------------------------------------------- EmbeddingResolver
\* Array.prototype.filter, as the increasing sequence of the positions kept;
\* kept is the set of the positions whose document passes the test.
Filter(documents, kept) ==
    [k \in 1..Cardinality(kept) |->
        CHOOSE i \in kept : Cardinality({j \in kept : j < i}) = k - 1]

\* A variant that looks at the contents alone.
docsWithoutContentsOrEmbeddingsContentsOnly(documents) ==
    Filter(documents, {i \in DOMAIN documents : ~TruthyString(documents[i].contents)})

\* Documents.ts lines 75-77: !doc.contents && !doc.embedding.
docsWithoutContentsOrEmbeddings(documents) ==
    Filter(documents, {i \in DOMAIN documents : ~TruthyString(documents[i].contents)
                            /\ ~TruthyObject(documents[i].embedding)})

\* Documents.ts lines 80-83: the message of the thrown Error.
MissingContentPrefix ==
    "The following documents have neither contents nor embeddings: "
MissingContentMessage(documents) ==
    LET bad == docsWithoutContentsOrEmbeddings(documents) IN
    <<MissingContentPrefix>> \o JoinParts([k \in 1..Len(bad) |-> documents[bad[k]].id])

\* A variant that also counts an empty embedding vector as missing.
docsMissingEmbeddingsEmptyIsMissing(documents) ==
    Filter(documents, {i \in DOMAIN documents : ~(IsPresent(documents[i].embedding)
                              /\ Len(documents[i].embedding[1]) > 0)})

\* Documents.ts lines 86-88: !doc.embedding.
docsMissingEmbeddings(documents) ==
    Filter(documents, {i \in DOMAIN documents : ~TruthyObject(documents[i].embedding)})

\* Documents.ts line 94: docsMissingEmbeddings.map((doc) => doc.contents),
\* each text as read from the document (an optional string).
GenerateArgument(documents) ==
    LET missing == docsMissingEmbeddings(documents) IN
    [k \in 1..Len(missing) |-> documents[missing[k]].contents]

\* A variant that reads the returned vectors one position too far.
AssignEmbeddingsOffByOne(documents, embeddings) ==
    LET missing == docsMissingEmbeddings(documents)
        Rank(i) == CHOOSE k \in 1..Len(missing) : missing[k] = i
    IN [i \in 1..Len(documents) |->
          IF \E k \in 1..Len(missing) : missing[k] = i
          THEN [documents[i] EXCEPT
                  !.embedding = IF Rank(i) + 1 <= Len(embeddings)
                                THEN Some(embeddings[Rank(i) + 1])
                                ELSE Absent]
          ELSE documents[i]]

\* A variant that assigns the returned vectors in reverse order.
AssignEmbeddingsReversed(documents, embeddings) ==
    LET missing == docsMissingEmbeddings(documents)
        n == Len(missing)
        Rank(i) == CHOOSE k \in 1..n : missing[k] = i
    IN [i \in 1..Len(documents) |->
          IF \E k \in 1..n : missing[k] = i
          THEN [documents[i] EXCEPT
                  !.embedding = IF n + 1 - Rank(i) <= Len(embeddings)
                                THEN Some(embeddings[n + 1 - Rank(i)])
                                ELSE Absent]
          ELSE documents[i]]

\* A variant that indexes the returned vectors by the position of the
\* document in the whole batch.
AssignEmbeddingsByPosition(documents, embeddings) ==
    LET missing == docsMissingEmbeddings(documents) IN
    [i \in 1..Len(documents) |->
          IF \E k \in 1..Len(missing) : missing[k] = i
          THEN [documents[i] EXCEPT
                  !.embedding = IF i <= Len(embeddings)
                                THEN Some(embeddings[i])
                                ELSE Absent]
          ELSE documents[i]]

\* Documents.ts lines 97-99: doc.embedding = embeddings[index], in place;
\* embeddings[index] is undefined past the end of the returned array.
AssignEmbeddings(documents, embeddings) ==
    LET missing == docsMissingEmbeddings(documents)
        Rank(i) == CHOOSE k \in 1..Len(missing) : missing[k] = i
    IN [i \in 1..Len(documents) |->
          IF \E k \in 1..Len(missing) : missing[k] = i
          THEN [documents[i] EXCEPT
                  !.embedding = IF Rank(i) <= Len(embeddings)
                                THEN Some(embeddings[Rank(i)])
                                ELSE Absent]
          ELSE documents[i]]

\* ---------------------------------------------------------- QueryNormalizer
\* A DocQuery, or a batch of them, as the caller's JavaScript value: a
\* string, an array (of numbers: a raw embedding; of DocQuery: a batch), an
\* object (a QueryDoc), or a number (an element of a raw embedding).
NoDoc == MakeDoc(Absent, Absent, Absent, Absent)
JsNumber(n) == [tag |-> "number", num |-> n, str |-> "", arr |-> <<>>, obj |-> NoDoc]
JsString(s) == [tag |-> "string", num |-> 0, str |-> s, arr |-> <<>>, obj |-> NoDoc]
JsArray(a) == [tag |-> "array", num |-> 0, str |-> "", arr |-> a, obj |-> NoDoc]
JsObject(d) == [tag |-> "object", num |-> 0, str |-> "", arr |-> <<>>, obj |-> d]

\* A raw embedding vector is an array of numbers.
JsVector(v) == JsArray([i \in 1..Len(v) |-> JsNumber(v[i])])
isArray(value) == value.tag = "array"

\* A number seen as a document: no property is defined on it.
NumberAsDoc(n) == [NoDoc EXCEPT !.primitive = Some(n)]

\* A variant that turns a string into an embedding-less, contents-less doc.
docQueryToQueryDocDropString(query) ==
    IF isArray(query)
    THEN MakeDoc(Absent, Some([i \in 1..Len(query.arr) |-> query.arr[i].num]),
                 Absent, Absent)
    ELSE IF query.tag = "string"
    THEN NoDoc
    ELSE IF query.tag = "object" THEN query.obj ELSE NumberAsDoc(query.num)

\* Documents.ts lines 104-114.
docQueryToQueryDoc(query) ==
    IF isArray(query)
    THEN MakeDoc(Absent, Some([i \in 1..Len(query.arr) |-> query.arr[i].num]),
                 Absent, Absent)
    ELSE IF query.tag = "string"
    THEN MakeDoc(Absent, Absent, Some(query.str), Absent)
    ELSE IF query.tag = "object" THEN query.obj ELSE NumberAsDoc(query.num)

\* utils.toArray: an array is returned as it is, any other value is wrapped.
toArray(value) == IF isArray(value) THEN value.arr ELSE <<value>>

\* ------------------------------------------------------------------ state
VARIABLES
    \* Direct calls of the exported codec functions.
    codecPc,        \* "idle", "encoded", "decoded" or "roundtrip"
    codecDocs,      \* the argument of the last docsToParallelArrays call
    encoded,        \* its outcome
    codecArrays,    \* the argument of the last parallelArraysToDocs call
    decoded,        \* its outcome
    \* A ChromaClient and the calls made on it.
    initPromise,    \* "pending", "fulfilled" or "rejected"
    collection,     \* the Collection handle the calls are given
    live,           \* the callers that make calls
    calls           \* per caller, the call it has in flight

codecVars == <<codecPc, codecDocs, encoded, codecArrays, decoded>>
clientVars == <<initPromise, collection, live, calls>>
vars == <<codecPc, codecDocs, encoded, codecArrays, decoded,
          initPromise, collection, live, calls>>

\* --------------------------------------------------- direct codec calls
NoEncoded ==
    [threw |-> FALSE, message |-> <<>>, ids |-> <<>>, embeddings |-> <<>>,
     documents |-> <<>>, metadatas |-> <<>>]
NoArrays == MakeArrays(<<>>, Absent, Absent, Absent)
NoDecoded == [threw |-> FALSE, message |-> <<>>, docs |-> <<>>]

\* ChromaDoc values (the id is required) and the batches of them.
CodecDocSet ==
    {MakeDoc(Some(id), e, c, m) :
        id \in Ids, e \in Opt({<<1>>}), c \in Opt({"x"}),
        m \in Opt(MetadataValues)}
CodecBatches == SeqUpTo(CodecDocSet, MaxDocs)

\* Arguments of parallelArraysToDocs, the optional arrays of any length.
CodecIdArrays == SeqUpTo({Some("a"), Some("b")}, MaxArrayLen)
CodecEmbeddingArrays == Opt(SeqUpTo(Opt({<<1>>}), MaxArrayLen))
CodecDocumentArrays == Opt(SeqUpTo(Opt({"x"}), MaxArrayLen))
CodecMetadataArrays == Opt(SeqUpTo(Opt(MetadataValues), MaxArrayLen))

Encode ==
    /\ codecPc = "idle"
    /\ \E documents \in CodecBatches :
        /\ codecPc' = "encoded"
        /\ codecDocs' = documents
        /\ encoded' = docsToParallelArrays(documents)
        /\ codecArrays' = NoArrays
        /\ decoded' = NoDecoded
        /\ UNCHANGED clientVars

\* parallelArraysToDocs applied to what docsToParallelArrays returned.
DecodeEncoded ==
    /\ codecPc = "encoded"
    /\ ~encoded.threw
    /\ LET arrays == MakeArrays(encoded.ids, Some(encoded.embeddings),
                                Some(encoded.documents),
                                Some(encoded.metadatas))
       IN /\ codecArrays' = arrays
          /\ decoded' = parallelArraysToDocs(arrays)
    /\ codecPc' = "roundtrip"
    /\ UNCHANGED <<codecDocs, encoded>>
    /\ UNCHANGED clientVars

Decode ==
    /\ codecPc = "idle"
    /\ \E ids \in CodecIdArrays, e \in CodecEmbeddingArrays,
          d \in CodecDocumentArrays, m \in CodecMetadataArrays :
        /\ codecPc' = "decoded"
        /\ codecArrays' = MakeArrays(ids, e, d, m)
        /\ decoded' = parallelArraysToDocs(MakeArrays(ids, e, d, m))
        /\ codecDocs' = <<>>
        /\ encoded' = NoEncoded
        /\ UNCHANGED clientVars

\* The caller drops the values of the last call.
CodecDone ==
    /\ codecPc # "idle"
    /\ codecPc' = "idle"
    /\ codecDocs' = <<>>
    /\ encoded' = NoEncoded
    /\ codecArrays' = NoArrays
    /\ decoded' = NoDecoded
    /\ UNCHANGED clientVars

ClientIdle ==
    /\ initPromise = "pending"
    /\ collection = [name |-> "n", id |-> "col", metadata |-> Absent,
                     embeddingFunction |-> "ef"]
    /\ live = {}
    /\ calls = <<>>

InitCodec ==
    /\ codecPc = "idle"
    /\ codecDocs = <<>>
    /\ encoded = NoEncoded
    /\ codecArrays = NoArrays
    /\ decoded = NoDecoded
    /\ ClientIdle

NextCodec == Encode \/ DecodeEncoded \/ Decode \/ CodecDone

SpecCodec == InitCodec /\ [][NextCodec]_vars

\* ------------------------------------------------------------ the client
\* The callers of the client.
NumCallers == 2
Callers == 1..NumCallers

\* Most neighbours the store returns for one query.
MaxNeighbors == 2

\* The vector the embedding capability computes for a text.
EmbeddingOf(text) ==
    IF text = Some("x") THEN <<7>> ELSE IF text = Some("y") THEN <<8>> ELSE <<9>>

\* The value a call returns: the store's answer (add, upsert), the documents
\* (computeEmbeddings, which returns its argument), an array of result
\* bundles, one unwrapped bundle, or undefined (queryDocuments).
NoResult == [kind |-> "none", bundles |-> <<>>]

\* A request handed to the generated transport bindings (this.api).
MakeRequest(endpoint, collectionId, arrays, query_embeddings) ==
    [endpoint |-> endpoint, collection |-> collectionId,
     ids |-> arrays.ids, embeddings |-> arrays.embeddings,
     documents |-> arrays.documents, metadatas |-> arrays.metadatas,
     query_embeddings |-> query_embeddings]

\* The call a caller has in flight.
\*   documents  the document objects of the call (the caller's for
\*              addDocuments, setDocuments and computeEmbeddings, queryDocs
\*              for queryDocuments); computeEmbeddings writes to them
\*   given      the documents as they were when computeEmbeddings was entered
\*   generated  the arguments of the capability's generate invocations
\*   vectors    what the last generate invocation returned
\*   requests   the requests the call handed to the transport
\*   response   the QueryResponse the call received, when it has one
\*   fetched    the documents getDocuments returned
\*   second, first   the call repeats computeEmbeddings on the documents a
\*              first call returned; the texts and vectors of that call
IdleCall ==
    [op |-> "none", pc |-> "idle", documents |-> <<>>, given |-> <<>>,
     query |-> JsString(""), single |-> FALSE,
     generated |-> <<>>, vectors |-> <<>>, requests |-> <<>>,
     response |-> <<>>, fetched |-> <<>>,
     result |-> NoResult, error |-> <<>>,
     second |-> FALSE,
     first |-> [generated |-> <<>>, vectors |-> <<>>]]

\* ChromaDoc batches of addDocuments and setDocuments.
WriteDocSet ==
    {MakeDoc(Some(id), e, c, m) :
        id \in {"a", "b"}, e \in Opt({<<1>>}), c \in Opt(Texts),
        m \in Opt(MetadataValues)}
WriteBatches == SeqUpTo(WriteDocSet, MaxDocs)

\* BaseChromaDoc batches of a direct computeEmbeddings call.
ResolveDocSet ==
    {MakeDoc(id, e, c, Absent) :
        id \in Opt({"b"}), e \in Opt(Vectors), c \in Opt(Texts)}
ResolveBatches == SeqUpTo(ResolveDocSet, MaxDocs)

\* types.ts DocQuery = string | Embedding | QueryDoc.
QueryDocSet ==
    {MakeDoc(Absent, e, c, Absent) : e \in Opt({<<1>>}), c \in Opt({"", "x"})}
RawVectors == {<<>>, <<1, 2>>}
DocQuerySet ==
    {JsString(t) : t \in Texts} \cup {JsVector(v) : v \in RawVectors}
      \cup {JsObject(d) : d \in QueryDocSet}
\* types.ts MultiQueryParams.query: DocQuery[].
DocQueryBatches == {JsArray(b) : b \in SeqUpTo(DocQuerySet, MaxDocs)}

\* The other public operations of the client: each awaits initPromise and
\* makes one request.
OtherOps ==
    {"reset", "version", "heartbeat", "collection", "listCollections",
     "countCollections", "updateCollection", "deleteCollection",
     "getDocuments", "countDocuments"}

\* The binding of this.api an operation calls.
EndpointOf(op) ==
    CASE op = "collection" -> "createCollection"
      [] op = "getDocuments" -> "aGet"
      [] op = "countDocuments" -> "count"
      [] OTHER -> op

\* The operations that name the collection by the id of the handle.
TakesHandle(op) ==
    op \in {"updateCollection", "getDocuments", "countDocuments"}

\* The GetResponse arrays the store answers aGet with.
GetResponses ==
    {MakeArrays(ids, e, Absent, Absent) :
        ids \in {<<Some("a")>>, <<Some("a"), Some("b")>>},
        e \in {Absent, Some(<<Some(<<1>>)>>)}}

\* Several callers share the client: they draw their arguments from the
\* small sets below, a lone caller from the full ones.
Shared == Cardinality(live) > 1
WriteInputs ==
    IF Shared THEN {<<MakeDoc(Some("a"), Absent, Some("x"), Absent)>>}
    ELSE WriteBatches
SingleQueryInputs == IF Shared THEN {JsString("x")} ELSE DocQuerySet
BatchQueryInputs ==
    IF Shared THEN {JsArray(<<JsVector(<<1, 2>>)>>)} ELSE DocQueryBatches
ResolveInputs ==
    IF Shared THEN {<<MakeDoc(Absent, Absent, Some("x"), Absent)>>}
    ELSE ResolveBatches
OtherOpInputs ==
    IF Shared THEN {"collection", "getDocuments", "countDocuments"}
    ELSE OtherOps
GetResponseInputs ==
    IF Shared THEN {MakeArrays(<<Some("a")>>, Absent, Absent, Absent)}
    ELSE GetResponses

\* embeddingFunction.generate(texts): the capability is the caller's object;
\* it is meant to return one vector per text, and nothing makes it. It
\* returns the vectors of the texts, all of them or all but the last.
GenerateResults(texts) ==
    LET full == [i \in 1..Len(texts) |-> EmbeddingOf(texts[i])] IN
    {full} \cup (IF Len(texts) > 0
                 THEN {SubSeq(full, 1, Len(texts) - 1)} ELSE {})

\* A variant that invokes generate before it looks for documents without
\* contents and embedding.
ResolveEnterGenerateFirst(c0) ==
    LET c == [c0 EXCEPT !.given = c0.documents] IN
    IF Len(docsWithoutContentsOrEmbeddings(c.documents)) > 0
    THEN [c EXCEPT !.pc = "threw",
                   !.error = MissingContentMessage(c.documents),
                   !.generated = Append(@, GenerateArgument(c.documents))]
    ELSE IF Len(docsMissingEmbeddings(c.documents)) = 0
    THEN [c EXCEPT !.pc = "resolved"]
    ELSE [c EXCEPT !.pc = "awaitGenerate",
                   !.generated = Append(@, GenerateArgument(c.documents))]

\* The entry point of computeEmbeddings up to its await (Documents.ts lines
\* 75-95) for the call c: the missing-content check, then either the early
\* return (pc "resolved") or the invocation of generate.
ResolveEnter(c0) ==
    LET c == [c0 EXCEPT !.given = c0.documents] IN
    IF Len(docsWithoutContentsOrEmbeddings(c.documents)) > 0
    THEN [c EXCEPT !.pc = "threw",
                   !.error = MissingContentMessage(c.documents)]
    ELSE IF Len(docsMissingEmbeddings(c.documents)) = 0
    THEN [c EXCEPT !.pc = "resolved"]
    ELSE [c EXCEPT !.pc = "awaitGenerate",
                   !.generated = Append(@, GenerateArgument(c.documents))]

\* ChromaClient.ts lines 341-350 and 374-383 after computeEmbeddings has
\* returned: docsToParallelArrays, then api.add or api.upsert.
SendWrite(c, collectionId) ==
    LET arrays == docsToParallelArrays(c.documents) IN
    IF arrays.threw
    THEN [c EXCEPT !.pc = "threw", !.error = arrays.message]
    ELSE [c EXCEPT
            !.pc = "awaitResponse",
            !.requests = Append(@,
                MakeRequest(IF c.op = "addDocuments" THEN "add" ELSE "upsert",
                            collectionId, arrays, <<>>))]

\* A variant that sends one request per query document.
SendQueryPerDocument(c, collectionId) ==
    [c EXCEPT
        !.pc = "awaitResponse",
        !.requests = @ \o
            [i \in 1..Len(c.documents) |->
                MakeRequest("getNearestNeighbors", collectionId, NoEncoded,
                            <<c.documents[i].embedding>>)]]

\* ChromaClient.ts lines 491-503: api.getNearestNeighbors with
\* query_embeddings: docsWithEmbeddings.map((d) => d.embedding).
SendQuery(c, collectionId) ==
    [c EXCEPT
        !.pc = "awaitResponse",
        !.requests = Append(@,
            MakeRequest("getNearestNeighbors", collectionId, NoEncoded,
                        [i \in 1..Len(c.documents) |->
                            c.documents[i].embedding]))]

\* What runs when computeEmbeddings has returned its documents.
AfterResolve(c, collectionId) ==
    IF c.op = "computeEmbeddings"
    THEN [c EXCEPT !.pc = "returned",
                   !.result = [kind |-> "documents", bundles |-> <<>>]]
    ELSE IF c.op = "queryDocuments"
    THEN SendQuery(c, collectionId)
    ELSE SendWrite(c, collectionId)

\* computeEmbeddings entered from its caller: on the early return the caller
\* goes on at once with the documents.
Resolve(c0, collectionId) ==
    LET c == ResolveEnter(c0) IN
    IF c.pc = "resolved" THEN AfterResolve(c, collectionId) ELSE c

\* The QueryResponse of the store for n query embeddings: per query its
\* neighbours' ids and, as included, their embeddings, documents and
\* metadatas, and the distances: null when not included ("null"), one per
\* neighbour ("full"), a row one short ("short") or a row missing for the
\* last query ("fewRows").  The neighbours
\* of query q are the ids from the q-th on, in a circle.
NeighbourIds == <<"a", "b", "c">>
NeighbourId(q, i) == NeighbourIds[((q + i - 2) % Len(NeighbourIds)) + 1]
IncludeSets == {{}, {"embeddings", "documents", "metadatas"}}
\* How many neighbours each query has: the same number for all, or one
\* fewer for the queries after the first.
NeighbourCounts(n) ==
    IF Shared THEN {[q \in 1..n |-> 1]}
    ELSE {[q \in 1..n |-> k] : k \in 0..MaxNeighbors}
           \cup {[q \in 1..n |-> IF q = 1 THEN MaxNeighbors
                                  ELSE MaxNeighbors - 1]}
IncludeInputs == IF Shared THEN {{}} ELSE IncludeSets
DistanceInputs ==
    IF Shared THEN {"full"} ELSE {"null", "full", "short", "fewRows"}
MakeResponse(n, count, include, distances) ==
    LET Column(name, value) ==
            IF name \in include
            THEN Some([q \in 1..n |-> [i \in 1..count[q] |-> Some(value)]])
            ELSE Absent
    IN [ids |-> [q \in 1..n |-> [i \in 1..count[q] |-> Some(NeighbourId(q, i))]],
        embeddings |-> Column("embeddings", <<1>>),
        documents |-> Column("documents", "x"),
        metadatas |-> Column("metadatas", "m"),
        distances |->
            IF distances = "null" THEN Absent
            ELSE Some([q \in 1..(IF distances = "fewRows" /\ n > 0
                                 THEN n - 1 ELSE n) |->
                    [i \in 1..(IF distances = "short" /\ count[q] > 0
                               THEN count[q] - 1 ELSE count[q]) |->
                        10 * q + i]])]

\* `response.x?.[index]` of a nested array: the inner array, or undefined.
NestedAt(optArray, index) ==
    IF IsPresent(optArray) /\ index <= Len(optArray[1])
    THEN Some(optArray[1][index]) ELSE Absent

\* A variant that reads the distances of the first query for every query.
DistanceAtFirstRow(response, index, i) ==
    IF /\ IsPresent(response.distances)
       /\ 1 <= Len(response.distances[1])
       /\ i <= Len(response.distances[1][1])
    THEN response.distances[1][1][i] ELSE 0

\* `response.distances?.[index]?.[i] ?? 0`.
DistanceAt(response, index, i) ==
    IF /\ IsPresent(response.distances)
       /\ index <= Len(response.distances[1])
       /\ i <= Len(response.distances[1][index])
    THEN response.distances[1][index][i] ELSE 0

\* ChromaClient.ts lines 508-514: the decoding of the neighbours of a query.
DecodeNeighbours(response, index) ==
    parallelArraysToDocs(
        MakeArrays(response.ids[index],
                   NestedAt(response.embeddings, index),
                   NestedAt(response.documents, index),
                   NestedAt(response.metadatas, index)))

\* A variant that pairs the rows of the response with the queries in the
\* opposite order.
ReceiveQueryReversed(c, response) ==
    LET n == Len(response.ids)
        result ==
            [index \in 1..n |->
                [queryDoc |-> IF n + 1 - index <= Len(c.documents)
                              THEN Some(c.documents[n + 1 - index]) ELSE Absent,
                 results |->
                    LET docs == DecodeNeighbours(response, index).docs IN
                    [i \in 1..Len(docs) |->
                        [doc |-> docs[i],
                         distance |-> DistanceAt(response, index, i)]]]]
    IN [c EXCEPT
            !.pc = "returned",
            !.response = Some(response),
            !.result =
                IF isArray(c.query)
                THEN [kind |-> "array", bundles |-> result]
                ELSE IF n > 0
                THEN [kind |-> "bundle", bundles |-> <<result[1]>>]
                ELSE [kind |-> "undefined", bundles |-> <<>>]]

\* A variant whose bundles carry the query documents as they were before
\* computeEmbeddings wrote to them.
ReceiveQueryFreshDocs(c, response) ==
    LET n == Len(response.ids)
        result ==
            [index \in 1..n |->
                [queryDoc |-> IF index <= Len(c.given)
                              THEN Some(c.given[index]) ELSE Absent,
                 results |->
                    LET docs == DecodeNeighbours(response, index).docs IN
                    [i \in 1..Len(docs) |->
                        [doc |-> docs[i],
                         distance |-> DistanceAt(response, index, i)]]]]
    IN [c EXCEPT
            !.pc = "returned",
            !.response = Some(response),
            !.result =
                IF isArray(c.query)
                THEN [kind |-> "array", bundles |-> result]
                ELSE IF n > 0
                THEN [kind |-> "bundle", bundles |-> <<result[1]>>]
                ELSE [kind |-> "undefined", bundles |-> <<>>]]

\* ChromaClient.ts lines 505-524: the result bundles and the value returned.
\* queryDocs[index] is the document object computeEmbeddings wrote to.
ReceiveQuery(c, response) ==
    LET n == Len(response.ids)
        result ==
            [index \in 1..n |->
                [queryDoc |-> IF index <= Len(c.documents)
                              THEN Some(c.documents[index]) ELSE Absent,
                 results |->
                    LET docs == DecodeNeighbours(response, index).docs IN
                    [i \in 1..Len(docs) |->
                        [doc |-> docs[i],
                         distance |-> DistanceAt(response, index, i)]]]]
    IN
    IF \E index \in 1..n : DecodeNeighbours(response, index).threw
    THEN [c EXCEPT !.pc = "threw", !.error = LengthMismatchMessage,
                   !.response = Some(response)]
    ELSE [c EXCEPT
            !.pc = "returned",
            !.response = Some(response),
            !.result =
                IF isArray(c.query)
                THEN [kind |-> "array", bundles |-> result]
                ELSE IF n > 0
                THEN [kind |-> "bundle", bundles |-> <<result[1]>>]
                ELSE [kind |-> "undefined", bundles |-> <<>>]]

\* ---------------------------------------------------------------- actions
\* ChromaClient.init (lines 104-106): validateTenantDatabase resolves.
InitSucceeds ==
    /\ initPromise = "pending"
    /\ initPromise' = "fulfilled"
    /\ UNCHANGED <<collection, live, calls>>
    /\ UNCHANGED codecVars

\* validateTenantDatabase throws: initPromise is rejected.
InitFails ==
    /\ initPromise = "pending"
    /\ initPromise' = "rejected"
    /\ UNCHANGED <<collection, live, calls>>
    /\ UNCHANGED codecVars

\* addDocuments or setDocuments is called: it suspends at
\* `await this.initPromise`.
CallWrite(p) ==
    /\ p \in live
    /\ calls[p].pc = "idle"
    /\ \E op \in {"addDocuments", "setDocuments"}, documents \in WriteInputs :
          calls' = [calls EXCEPT ![p] =
                      [IdleCall EXCEPT !.op = op, !.pc = "awaitInit",
                                       !.documents = documents,
                                       !.given = documents]]
    /\ UNCHANGED <<initPromise, collection, live>>
    /\ UNCHANGED codecVars

\* queryDocuments is called with a single DocQuery (SingleQueryParams).
CallQuerySingle(p) ==
    /\ p \in live
    /\ calls[p].pc = "idle"
    /\ \E query \in SingleQueryInputs :
          calls' = [calls EXCEPT ![p] =
                      [IdleCall EXCEPT !.op = "queryDocuments",
                                       !.pc = "awaitInit",
                                       !.query = query, !.single = TRUE]]
    /\ UNCHANGED <<initPromise, collection, live>>
    /\ UNCHANGED codecVars

\* queryDocuments is called with a batch of DocQuery (MultiQueryParams).
CallQueryBatch(p) ==
    /\ p \in live
    /\ calls[p].pc = "idle"
    /\ \E query \in BatchQueryInputs :
          calls' = [calls EXCEPT ![p] =
                      [IdleCall EXCEPT !.op = "queryDocuments",
                                       !.pc = "awaitInit",
                                       !.query = query, !.single = FALSE]]
    /\ UNCHANGED <<initPromise, collection, live>>
    /\ UNCHANGED codecVars

\* A variant that does not wait for the initialization.
ResumeWriteBeforeInit(p) ==
    /\ p \in live
    /\ calls[p].pc = "awaitInit"
    /\ calls[p].op \in {"addDocuments", "setDocuments"}
    /\ initPromise # "rejected"
    /\ calls' = [calls EXCEPT ![p] =
                   Resolve(calls[p], collection.id)]
    /\ UNCHANGED <<initPromise, collection, live>>
    /\ UNCHANGED codecVars

\* `await this.initPromise` resumes a write: computeEmbeddings is entered.
ResumeWrite(p) ==
    /\ p \in live
    /\ calls[p].pc = "awaitInit"
    /\ calls[p].op \in {"addDocuments", "setDocuments"}
    /\ initPromise = "fulfilled"
    /\ calls' = [calls EXCEPT ![p] =
                   Resolve(calls[p], collection.id)]
    /\ UNCHANGED <<initPromise, collection, live>>
    /\ UNCHANGED codecVars

\* `await this.initPromise` resumes a query (ChromaClient.ts line 485):
\* queryDocs = toArray(query).map(docQueryToQueryDoc), then computeEmbeddings.
ResumeQuery(p) ==
    /\ p \in live
    /\ calls[p].pc = "awaitInit"
    /\ calls[p].op = "queryDocuments"
    /\ initPromise = "fulfilled"
    /\ LET items == toArray(calls[p].query)
           queryDocs == [i \in 1..Len(items) |-> docQueryToQueryDoc(items[i])]
       IN calls' = [calls EXCEPT ![p] =
                      Resolve([calls[p] EXCEPT !.documents = queryDocs], collection.id)]
    /\ UNCHANGED <<initPromise, collection, live>>
    /\ UNCHANGED codecVars

\* A variant that runs the initialization again when it has failed.
ResumeFailedRetries(p) ==
    /\ p \in live
    /\ calls[p].pc = "awaitInit"
    /\ initPromise = "rejected"
    /\ initPromise' = "pending"
    /\ UNCHANGED <<collection, live, calls>>
    /\ UNCHANGED codecVars

\* `await this.initPromise` throws in a call: the initialization failed.
ResumeFailed(p) ==
    /\ p \in live
    /\ calls[p].pc = "awaitInit"
    /\ initPromise = "rejected"
    /\ calls' = [calls EXCEPT ![p].pc = "threw",
                              ![p].error = <<"initialization failed">>]
    /\ UNCHANGED <<initPromise, collection, live>>
    /\ UNCHANGED codecVars

\* computeEmbeddings is called directly (it is exported by Documents.ts).
CallResolve(p) ==
    /\ p \in live
    /\ calls[p].pc = "idle"
    /\ \E documents \in ResolveInputs :
          calls' = [calls EXCEPT ![p] =
                      Resolve([IdleCall EXCEPT
                                        !.op = "computeEmbeddings",
                                        !.documents = documents], collection.id)]
    /\ UNCHANGED <<initPromise, collection, live>>
    /\ UNCHANGED codecVars

\* computeEmbeddings is called again, on the documents it returned.
CallResolveAgain(p) ==
    /\ p \in live
    /\ calls[p].pc = "returned"
    /\ calls[p].op = "computeEmbeddings"
    /\ ~calls[p].second
    /\ calls' = [calls EXCEPT ![p] =
                   Resolve([calls[p] EXCEPT
                                    !.pc = "idle",
                                    !.second = TRUE,
                                    !.first = [generated |-> calls[p].generated,
                                               vectors |-> calls[p].vectors],
                                    !.generated = <<>>,
                                    !.vectors = <<>>,
                                    !.result = NoResult], collection.id)]
    /\ UNCHANGED <<initPromise, collection, live>>
    /\ UNCHANGED codecVars

\* generate resolves (Documents.ts lines 93-101): the vectors are written to
\* the documents that lacked one and computeEmbeddings returns.
GenerateReturns(p) ==
    /\ p \in live
    /\ calls[p].pc = "awaitGenerate"
    /\ LET c == calls[p]
           texts == c.generated[Len(c.generated)]
       IN \E embeddings \in GenerateResults(texts) :
            calls' = [calls EXCEPT ![p] =
                        AfterResolve(
                            [c EXCEPT !.documents =
                                        AssignEmbeddings(c.documents, embeddings),
                                      !.vectors = embeddings],
                            collection.id)]
    /\ UNCHANGED <<initPromise, collection, live>>
    /\ UNCHANGED codecVars

\* generate rejects: the exception leaves computeEmbeddings and the call.
GenerateThrows(p) ==
    /\ p \in live
    /\ calls[p].pc = "awaitGenerate"
    /\ calls' = [calls EXCEPT ![p].pc = "threw",
                              ![p].error = <<"generate failed">>]
    /\ UNCHANGED <<initPromise, collection, live>>
    /\ UNCHANGED codecVars

\* A variant that notes the answer in the metadata of the handle.
WriteAnsweredNotesHandle(p) ==
    /\ p \in live
    /\ calls[p].pc = "awaitResponse"
    /\ calls[p].op \in {"addDocuments", "setDocuments"}
    /\ calls' = [calls EXCEPT ![p].pc = "returned",
                              ![p].result = [kind |-> "response",
                                             bundles |-> <<>>]]
    /\ collection' = [collection EXCEPT !.metadata = Some("m")]
    /\ UNCHANGED <<initPromise, live>>
    /\ UNCHANGED codecVars

\* The store answers api.add or api.upsert and handleSuccess passes it on.
WriteAnswered(p) ==
    /\ p \in live
    /\ calls[p].pc = "awaitResponse"
    /\ calls[p].op \in {"addDocuments", "setDocuments"}
    /\ calls' = [calls EXCEPT ![p].pc = "returned",
                              ![p].result = [kind |-> "response",
                                             bundles |-> <<>>]]
    /\ UNCHANGED <<initPromise, collection, live>>
    /\ UNCHANGED codecVars

\* The store answers api.getNearestNeighbors.
QueryAnswered(p) ==
    /\ p \in live
    /\ calls[p].pc = "awaitResponse"
    /\ calls[p].op = "queryDocuments"
    /\ LET n == Len(calls[p].requests[1].query_embeddings) IN
       \E count \in NeighbourCounts(n), include \in IncludeInputs,
          distances \in DistanceInputs :
            calls' = [calls EXCEPT ![p] =
                        ReceiveQuery(calls[p],
                            MakeResponse(n, count, include, distances))]
    /\ UNCHANGED <<initPromise, collection, live>>
    /\ UNCHANGED codecVars

\* One of the other operations is called: it suspends at
\* `await this.initPromise`.
CallOther(p) ==
    /\ p \in live
    /\ calls[p].pc = "idle"
    /\ \E op \in OtherOpInputs :
          calls' = [calls EXCEPT ![p] =
                      [IdleCall EXCEPT !.op = op, !.pc = "awaitInit"]]
    /\ UNCHANGED <<initPromise, collection, live>>
    /\ UNCHANGED codecVars

\* `await this.initPromise` resumes it: it makes its request.
ResumeOther(p) ==
    /\ p \in live
    /\ calls[p].pc = "awaitInit"
    /\ calls[p].op \in OtherOps
    /\ initPromise = "fulfilled"
    /\ calls' = [calls EXCEPT
                   ![p].pc = "awaitResponse",
                   ![p].requests = Append(@,
                       MakeRequest(EndpointOf(calls[p].op),
                                   IF TakesHandle(calls[p].op)
                                   THEN collection.id ELSE "",
                                   NoEncoded, <<>>))]
    /\ UNCHANGED <<initPromise, collection, live>>
    /\ UNCHANGED codecVars

\* The store answers and the operation returns what handleSuccess passes on.
OtherAnswered(p) ==
    /\ p \in live
    /\ calls[p].pc = "awaitResponse"
    /\ calls[p].op \in OtherOps \ {"collection", "getDocuments"}
    /\ calls' = [calls EXCEPT ![p].pc = "returned",
                              ![p].result = [kind |-> "response",
                                             bundles |-> <<>>]]
    /\ UNCHANGED <<initPromise, collection, live>>
    /\ UNCHANGED codecVars

\* The store answers createCollection (ChromaClient.ts lines 200-211): an
\* answer with an error is thrown, else a new Collection is returned.
CollectionAnswered(p) ==
    /\ p \in live
    /\ calls[p].pc = "awaitResponse"
    /\ calls[p].op = "collection"
    /\ \/ calls' = [calls EXCEPT ![p].pc = "threw",
                                  ![p].error = <<"collection error">>]
       \/ calls' = [calls EXCEPT ![p].pc = "returned",
                                  ![p].result = [kind |-> "collection",
                                                 bundles |-> <<>>]]
    /\ UNCHANGED <<initPromise, collection, live>>
    /\ UNCHANGED codecVars

\* The store answers aGet (ChromaClient.ts lines 431-436): the arrays are
\* decoded by parallelArraysToDocs.
GetAnswered(p) ==
    /\ p \in live
    /\ calls[p].pc = "awaitResponse"
    /\ calls[p].op = "getDocuments"
    /\ \E arrays \in GetResponseInputs :
          LET outcome == parallelArraysToDocs(arrays) IN
          calls' = [calls EXCEPT ![p] =
                      IF outcome.threw
                      THEN [@ EXCEPT !.pc = "threw", !.error = outcome.message]
                      ELSE [@ EXCEPT !.pc = "returned",
                                     !.fetched = outcome.docs,
                                     !.result = [kind |-> "documents",
                                                 bundles |-> <<>>]]]
    /\ UNCHANGED <<initPromise, collection, live>>
    /\ UNCHANGED codecVars

\* The request fails (no connection, or handleSuccess throws on an error
\* answer): the call throws.
RequestFails(p) ==
    /\ p \in live
    /\ calls[p].pc = "awaitResponse"
    /\ calls' = [calls EXCEPT ![p].pc = "threw",
                              ![p].error = <<"request failed">>]
    /\ UNCHANGED <<initPromise, collection, live>>
    /\ UNCHANGED codecVars

\* The caller has the outcome of its call and may make another.
CallDone(p) ==
    /\ p \in live
    /\ calls[p].pc \in {"returned", "threw"}
    /\ calls' = [calls EXCEPT ![p] = IdleCall]
    /\ UNCHANGED <<initPromise, collection, live>>
    /\ UNCHANGED codecVars

\* new ChromaClient(...): initPromise = this.init() is pending; one caller.
Init ==
    /\ codecPc = "idle"
    /\ codecDocs = <<>>
    /\ encoded = NoEncoded
    /\ codecArrays = NoArrays
    /\ decoded = NoDecoded
    /\ initPromise = "pending"
    /\ collection = [name |-> "n", id |-> "col", metadata |-> Absent,
                     embeddingFunction |-> "ef"]
    /\ live = {1}
    /\ calls = [p \in Callers |-> IdleCall]

Next ==
    \/ InitSucceeds
    \/ InitFails
    \/ \E p \in Callers :
          \/ CallWrite(p)
          \/ CallQuerySingle(p)
          \/ CallQueryBatch(p)
          \/ CallResolve(p)
          \/ CallResolveAgain(p)
          \/ ResumeWrite(p)
          \/ ResumeQuery(p)
          \/ ResumeFailed(p)
          \/ GenerateReturns(p)
          \/ GenerateThrows(p)
          \/ WriteAnswered(p)
          \/ QueryAnswered(p)
          \/ CallOther(p)
          \/ ResumeOther(p)
          \/ OtherAnswered(p)
          \/ CollectionAnswered(p)
          \/ GetAnswered(p)
          \/ RequestFails(p)
          \/ CallDone(p)

Spec == Init /\ [][Next]_vars

\* new ChromaClient(...) whose methods every caller uses.
InitShared ==
    /\ codecPc = "idle"
    /\ codecDocs = <<>>
    /\ encoded = NoEncoded
    /\ codecArrays = NoArrays
    /\ decoded = NoDecoded
    /\ initPromise = "pending"
    /\ collection = [name |-> "n", id |-> "col", metadata |-> Absent,
                     embeddingFunction |-> "ef"]
    /\ live = Callers
    /\ calls = [p \in Callers |-> IdleCall]

SpecShared == InitShared /\ [][Next]_vars

\* --------------------------------------------------- claims on the codec
\* The ids that occur more than once in a batch.
RepeatedIds(documents) ==
    {documents[i].id : i \in {i \in 1..Len(documents) :
        \E j \in 1..Len(documents) : j # i /\ documents[j].id = documents[i].id}}
DistinctIds(documents) == RepeatedIds(documents) = {}
Range(seq) == {seq[i] : i \in 1..Len(seq)}

\* C1: a batch with a repeated id makes docsToParallelArrays throw the
\* duplicate-id error, whose message names exactly the repeated ids, and no
\* arrays are returned.
C1_DuplicateIdsRejected ==
    (codecPc = "encoded" /\ ~DistinctIds(codecDocs)) =>
        /\ encoded.threw
        /\ Len(encoded.message) > 0
        /\ encoded.message[1] = "Duplicate ids found: "
        /\ Range(Tail(encoded.message))
             = {id[1] : id \in RepeatedIds(codecDocs)}
        /\ encoded.ids = <<>>

\* C3: round trip. For a batch with pairwise distinct ids,
\* parallelArraysToDocs applied to the result of docsToParallelArrays returns
\* the batch: the same documents, field for field, in the same order.
C3_RoundTrip ==
    (codecPc = "roundtrip" /\ DistinctIds(codecDocs)) =>
        /\ ~decoded.threw
        /\ decoded.docs = codecDocs

C3_Witness ==
    /\ codecPc = "roundtrip"
    /\ DistinctIds(codecDocs)
    /\ Len(codecDocs) = 2
    /\ ~IsPresent(codecDocs[1].embedding)
    /\ IsPresent(codecDocs[2].embedding)
    /\ IsPresent(codecDocs[1].contents)
    /\ ~IsPresent(codecDocs[2].metadata)

\* C4: for N documents with pairwise distinct ids docsToParallelArrays
\* returns four arrays of length N, and position i of each holds the id,
\* embedding, contents and metadata of document i (absent where the document
\* lacks the field).
C4_EncodeShape ==
    (codecPc \in {"encoded", "roundtrip"} /\ DistinctIds(codecDocs)) =>
        /\ ~encoded.threw
        /\ Len(encoded.ids) = Len(codecDocs)
        /\ Len(encoded.embeddings) = Len(codecDocs)
        /\ Len(encoded.documents) = Len(codecDocs)
        /\ Len(encoded.metadatas) = Len(codecDocs)
        /\ \A i \in 1..Len(codecDocs) :
              /\ encoded.ids[i] = codecDocs[i].id
              /\ encoded.embeddings[i] = codecDocs[i].embedding
              /\ encoded.documents[i] = codecDocs[i].contents
              /\ encoded.metadatas[i] = codecDocs[i].metadata

C4_Witness ==
    /\ codecPc = "encoded"
    /\ Len(codecDocs) = 2
    /\ codecDocs[1].id = Some("b")
    /\ codecDocs[2].id = Some("a")
    /\ codecDocs[1].contents = Some("x")
    /\ codecDocs[2].contents = Absent
    /\ encoded.ids = <<Some("b"), Some("a")>>

\* A given optional array whose length is not n.
WrongLength(a, n) == IsPresent(a) /\ Len(a[1]) # n

\* C5: parallelArraysToDocs throws the length-mismatch error exactly when a
\* given optional array has a length other than that of ids (an empty given
\* array included); otherwise it returns one document per id, in order,
\* field i taken from position i of each given array and absent for an array
\* that was not given.
C5_DecodeContract ==
    codecPc = "decoded" =>
        LET n == Len(codecArrays.ids)
            Field(a, i) == IF IsPresent(a) THEN a[1][i] ELSE Absent
        IN
        /\ decoded.threw <=>
              \/ WrongLength(codecArrays.embeddings, n)
              \/ WrongLength(codecArrays.documents, n)
              \/ WrongLength(codecArrays.metadatas, n)
        /\ decoded.threw => decoded.message = LengthMismatchMessage
        /\ ~decoded.threw =>
              /\ Len(decoded.docs) = n
              /\ \A i \in 1..n :
                    /\ decoded.docs[i].id = codecArrays.ids[i]
                    /\ decoded.docs[i].embedding
                         = Field(codecArrays.embeddings, i)
                    /\ decoded.docs[i].contents
                         = Field(codecArrays.documents, i)
                    /\ decoded.docs[i].metadata
                         = Field(codecArrays.metadatas, i)

C5_Witness ==
    /\ codecPc = "decoded"
    /\ Len(codecArrays.ids) = 2
    /\ codecArrays.embeddings = Some(<<>>)
    /\ codecArrays.documents = Absent
    /\ decoded.threw

\* ------------------------------------------------- claims on the client
WriteOps == {"addDocuments", "setDocuments"}

\* The call has entered computeEmbeddings: it is past `await initPromise`.
Entered(c) ==
    /\ c.op \in WriteOps \cup {"queryDocuments", "computeEmbeddings"}
    /\ c.pc \notin {"idle", "awaitInit"}
    /\ c.error # <<"initialization failed">>

\* computeEmbeddings threw its missing-content error in the call.
MissingContentFailed(c) ==
    /\ c.pc = "threw"
    /\ Len(c.error) > 0
    /\ c.error[1] = MissingContentPrefix

\* computeEmbeddings has returned its documents to its caller.
Resolved(c) ==
    /\ Entered(c)
    /\ c.pc # "awaitGenerate"
    /\ ~MissingContentFailed(c)
    /\ c.error # <<"generate failed">>

\* C2: a call of addDocuments or setDocuments whose batch has a repeated id
\* fails, and hands no request to the transport.
C2_DuplicateBatchNotSent ==
    \A p \in live :
        (calls[p].op \in WriteOps /\ ~DistinctIds(calls[p].documents)) =>
            /\ calls[p].requests = <<>>
            /\ calls[p].pc # "returned"

\* The decimal names of the positions 0, 1, 2, ...
Decimal == <<"0", "1", "2", "3", "4">>

\* C6 as stated: computeEmbeddings throws the missing-content error exactly
\* when a document has neither contents nor an embedding, and the message
\* names each such document by its id or, when it has no id, by its position.
C6_AsStated ==
    \A p \in live :
        LET c == calls[p]
            offending == Filter(c.given, {i \in DOMAIN c.given : ~IsPresent(c.given[i].contents)
                             /\ ~IsPresent(c.given[i].embedding)})
        IN Entered(c) =>
            /\ MissingContentFailed(c) <=> Len(offending) > 0
            /\ MissingContentFailed(c) =>
                  /\ Len(c.error) = 1 + Len(offending)
                  /\ \A k \in 1..Len(offending) :
                        LET doc == c.given[offending[k]] IN
                        IF IsPresent(doc.id)
                        THEN c.error[1 + k] = doc.id[1]
                        ELSE c.error[1 + k] \in {Decimal[offending[k]],
                                                 Decimal[offending[k] + 1]}

\* C6, amended: computeEmbeddings throws the missing-content error exactly
\* when a document has no embedding and no non-empty contents (the empty
\* string counts as no contents); the message lists, in input order, the id
\* of each such document, and the empty string for one that has no id.
C6_MissingContent ==
    \A p \in live :
        LET c == calls[p]
            offending == Filter(c.given, {i \in DOMAIN c.given : (~IsPresent(c.given[i].contents) \/ c.given[i].contents = Some(""))
                             /\ ~IsPresent(c.given[i].embedding)})
        IN Entered(c) =>
            /\ MissingContentFailed(c) <=> Len(offending) > 0
            /\ MissingContentFailed(c) =>
                  /\ Len(c.error) = 1 + Len(offending)
                  /\ \A k \in 1..Len(offending) :
                        LET doc == c.given[offending[k]] IN
                        c.error[1 + k] = IF IsPresent(doc.id)
                                         THEN doc.id[1] ELSE ""

C6_Witness ==
    \E p \in live :
        /\ calls[p].op = "computeEmbeddings"
        /\ MissingContentFailed(calls[p])
        /\ Len(calls[p].given) = 2
        /\ calls[p].given[1].id = Absent
        /\ calls[p].given[1].contents = Some("")
        /\ calls[p].given[2].id = Some("b")
        /\ calls[p].given[2].contents = Absent
        /\ calls[p].error = <<MissingContentPrefix, "", "b">>

\* Every document of the batch has an embedding.
AllEmbedded(documents) ==
    \A i \in 1..Len(documents) : IsPresent(documents[i].embedding)

\* computeEmbeddings on documents that all carry an embedding invokes
\* generate zero times and returns the documents unchanged.
EmbeddedUntouched(c) ==
    (Entered(c) /\ AllEmbedded(c.given)) =>
        /\ c.generated = <<>>
        /\ c.documents = c.given
        /\ Resolved(c)

EnoughVectors(generated, vectors) ==
    generated = <<>> \/ Len(vectors) >= Len(generated[1])

Lacking(documents) ==
    Filter(documents, {i \in DOMAIN documents : ~IsPresent(documents[i].embedding)})

\* C8: when the documents are valid and some lack an embedding,
\* computeEmbeddings invokes generate exactly once, with the contents of the
\* documents lacking an embedding in their input order; it gives the k-th
\* returned vector to the k-th such document, leaves the other documents as
\* they were and returns the documents in the input order.
C8_GenerateOnce ==
    \A p \in live :
        LET c == calls[p]
            lacking == Lacking(c.given)
        IN (Entered(c) /\ ~MissingContentFailed(c) /\ Len(lacking) > 0) =>
            /\ c.generated
                 = <<[k \in 1..Len(lacking) |-> c.given[lacking[k]].contents]>>
            /\ Resolved(c) =>
                  /\ Len(c.documents) = Len(c.given)
                  /\ \A i \in 1..Len(c.given) :
                        IF IsPresent(c.given[i].embedding)
                        THEN c.documents[i] = c.given[i]
                        ELSE \E k \in 1..Len(lacking) :
                                /\ lacking[k] = i
                                /\ c.documents[i] =
                                     [c.given[i] EXCEPT !.embedding =
                                        IF k <= Len(c.vectors)
                                        THEN Some(c.vectors[k]) ELSE Absent]

C8_Witness ==
    \E p \in live :
        /\ calls[p].op = "addDocuments"
        /\ calls[p].pc = "awaitResponse"
        /\ Len(calls[p].given) = 2
        /\ calls[p].given[1].contents = Some("y")
        /\ calls[p].given[2].contents = Some("x")
        /\ calls[p].generated = <<(<<Some("y"), Some("x")>>)>>
        /\ calls[p].vectors = <<(<<8>>), (<<7>>)>>
        /\ calls[p].documents[1].embedding = Some(<<8>>)
        /\ calls[p].documents[2].embedding = Some(<<7>>)

\* Every document has an embedding, and so has every entry of the embeddings
\* and the query_embeddings of the requests sent.
EmbeddingsEverywhere(c) ==
    /\ AllEmbedded(c.documents)
    /\ \A r \in 1..Len(c.requests) :
          /\ \A i \in 1..Len(c.requests[r].embeddings) :
                IsPresent(c.requests[r].embeddings[i])
          /\ \A i \in 1..Len(c.requests[r].query_embeddings) :
                IsPresent(c.requests[r].query_embeddings[i])

C10_ShapeMirrored ==
    \A p \in live :
        LET c == calls[p] IN
        c.op = "queryDocuments" =>
            /\ c.pc = "returned" =>
                  IF c.single THEN c.result.kind = "bundle"
                  ELSE c.result.kind = "array"
            /\ (c.single /\ isArray(c.query)) => ~MissingContentFailed(c)

\* A batch query that has returned.
BatchReturned(c) ==
    c.op = "queryDocuments" /\ c.pc = "returned" /\ ~c.single

\* The document is the normalized query, but for an embedding filled in.
SameQueryDoc(document, normalized) ==
    /\ document.id = normalized.id
    /\ document.contents = normalized.contents
    /\ document.metadata = normalized.metadata
    /\ document.primitive = normalized.primitive
    /\ IsPresent(normalized.embedding) =>
          document.embedding = normalized.embedding

\* The ranked results are the neighbours of the row of the response.
BuiltFromRow(results, response, row) ==
    /\ Len(results) = Len(response.ids[row])
    /\ \A k \in 1..Len(results) :
          /\ results[k].doc.id = response.ids[row][k]
          /\ results[k].doc.embedding = At(NestedAt(response.embeddings, row), k)
          /\ results[k].doc.contents = At(NestedAt(response.documents, row), k)
          /\ results[k].doc.metadata = At(NestedAt(response.metadatas, row), k)

NormalizedQueries(c) ==
    LET items == toArray(c.query) IN
    [i \in 1..Len(items) |-> docQueryToQueryDoc(items[i])]

\* C12: one queryDocuments call, whatever the batch size, issues no request
\* but getNearestNeighbors, never more than one and exactly one when it
\* succeeds; it invokes generate at most once, and not at all when every
\* query carries an embedding.
C12_OneRoundTrip ==
    \A p \in live :
        LET c == calls[p] IN
        c.op = "queryDocuments" =>
            /\ Len(c.requests) <= 1
            /\ \A k \in 1..Len(c.requests) :
                  c.requests[k].endpoint = "getNearestNeighbors"
            /\ c.pc = "returned" => Len(c.requests) = 1
            /\ Len(c.generated) <= 1
            /\ (\A i \in 1..Len(NormalizedQueries(c)) :
                    IsPresent(NormalizedQueries(c)[i].embedding))
                  => Len(c.generated) = 0

\* A batch of two texts has returned after one generate invocation with
\* both texts and one request with both vectors.
C12_Witness ==
    \E p \in live :
        /\ BatchReturned(calls[p])
        /\ calls[p].query.arr = <<JsString("x"), JsString("y")>>
        /\ calls[p].generated = <<(<<Some("x"), Some("y")>>)>>
        /\ Len(calls[p].requests) = 1
        /\ Len(calls[p].requests[1].query_embeddings) = 2

\* --------------------------------------- claims on a client that is shared
\* The public operations of the client (computeEmbeddings is a function of
\* Documents.ts, not an operation of the client).
ClientOps == WriteOps \cup {"queryDocuments"} \cup OtherOps

\* The call has issued a request or invoked the capability.
Acted(c) == c.requests # <<>> \/ c.generated # <<>>

\* No operation of the client has acted unless the initialization completed.
InitBarrier ==
    \A p \in live :
        (calls[p].op \in ClientOps /\ Acted(calls[p]))
            => initPromise = "fulfilled"

\* Once settled, initPromise stays as it is: the step is not run again.
InitOnce == initPromise # "pending" => initPromise' = initPromise

\* C13: no public operation issues a request or invokes generate before the
\* single initialization step has completed, the step runs once, and after
\* it operations are not serialized (see the witness: two in flight).
C13_InitBarrier == [](InitBarrier) /\ [][InitOnce]_vars

\* Two calls are in flight at once, their requests issued and unanswered.
C13_Witness ==
    \E p, q \in live :
        /\ p # q
        /\ calls[p].op = "addDocuments" /\ calls[p].pc = "awaitResponse"
        /\ calls[q].op = "queryDocuments" /\ calls[q].pc = "awaitResponse"
        /\ Len(calls[p].requests) = 1 /\ Len(calls[q].requests) = 1

\* The QueryDoc that normalize is to make of a DocQuery of one of the three
\* shapes: a raw vector, a string, a QueryDoc object.
Normalizes(query, document) ==
    /\ query.tag = "array" =>
          document = MakeDoc(Absent,
                             Some([k \in 1..Len(query.arr) |-> query.arr[k].num]),
                             Absent, Absent)
    /\ query.tag = "string" =>
          document = MakeDoc(Absent, Absent, Some(query.str), Absent)
    /\ query.tag = "object" => document = query.obj

\* C14: docQueryToQueryDoc makes of a raw vector a QueryDoc with only the
\* embedding set, of a string one with only the contents set, and returns a
\* QueryDoc object as it is.  The documents computeEmbeddings is entered
\* with are the queries of the call, normalized one by one.
C14_Normalize ==
    \A p \in live :
        LET c == calls[p]
            items == toArray(c.query)
        IN (Entered(c) /\ c.op = "queryDocuments") =>
              /\ Len(c.given) = Len(items)
              /\ \A i \in 1..Len(items) : Normalizes(items[i], c.given[i])

\* A batch of a raw vector and a string has been normalized.
C14_Witness ==
    \E p \in live :
        /\ Entered(calls[p])
        /\ calls[p].op = "queryDocuments"
        /\ calls[p].query.arr = <<JsVector(<<1, 2>>), JsString("x")>>
        /\ calls[p].given =
              <<MakeDoc(Absent, Some(<<1, 2>>), Absent, Absent),
                MakeDoc(Absent, Absent, Some("x"), Absent)>>

\* The operations of the core, which are handed the Collection.
CoreOps ==
    WriteOps \cup {"queryDocuments", "getDocuments", "countDocuments"}

\* C15: no core operation modifies the Collection handle it is given: with
\* concurrent calls sharing the handle, in any interleaving, its name, id,
\* metadata and embedding capability stay as they were constructed, and
\* every request of a core operation names the id of the handle.
C15_HandleUnchanged ==
    /\ collection = [name |-> "n", id |-> "col", metadata |-> Absent,
                     embeddingFunction |-> "ef"]
    /\ \A p \in live :
          calls[p].op \in CoreOps =>
             \A k \in 1..Len(calls[p].requests) :
                calls[p].requests[k].collection = collection.id

\* Two calls share the handle: a write has returned while a query that
\* invoked the capability is still awaiting its answer.
C15_Witness ==
    \E p, q \in live :
        /\ p # q
        /\ calls[p].op = "addDocuments" /\ calls[p].pc = "returned"
        /\ calls[q].op = "queryDocuments" /\ calls[q].pc = "awaitResponse"
        /\ Len(calls[q].generated) = 1

\* A queryDocuments call that has received the answer of the store.
QueryReceived(c) == c.op = "queryDocuments" /\ IsPresent(c.response)

\* C16: the i-th ranked result of query q pairs the i-th decoded neighbour
\* of q with distances[q][i], in the order of the response; where the
\* response has no distances, none for q, or fewer than i for q, the
\* distance is 0 and the call does not fail.
C16_DistanceOrZero ==
    \A p \in live :
        LET c == calls[p] IN
        QueryReceived(c) =>
            LET response == c.response[1]
                distances == response.distances
            IN /\ c.pc = "returned"
               /\ \A q \in 1..Len(c.result.bundles) :
                     LET results == c.result.bundles[q].results IN
                     /\ Len(results) = Len(response.ids[q])
                     /\ \A i \in 1..Len(results) :
                           /\ results[i].doc.id = response.ids[q][i]
                           /\ results[i].distance =
                                 IF distances = Absent THEN 0
                                 ELSE IF q > Len(distances[1]) THEN 0
                                 ELSE IF i > Len(distances[1][q]) THEN 0
                                 ELSE distances[1][q][i]

\* The second query of a batch has two neighbours and one distance: the
\* second ranked result has the distance 0.
C16_Witness ==
    \E p \in live :
        /\ BatchReturned(calls[p])
        /\ QueryReceived(calls[p])
        /\ Len(calls[p].result.bundles) = 2
        /\ calls[p].response[1].distances = Some(<<(<<11>>), (<<21>>)>>)
        /\ Len(calls[p].result.bundles[2].results) = 2
        /\ calls[p].result.bundles[2].results[1].distance = 21
        /\ calls[p].result.bundles[2].results[2].distance = 0

\* A queryDocuments call that has sent its request.
QuerySent(c) == c.op = "queryDocuments" /\ Len(c.requests) > 0

\* How many of the first i documents lack an embedding.
LackingUpTo(documents, i) ==
    Cardinality({j \in 1..i : ~IsPresent(documents[j].embedding)})

\* C17 as stated, for a batch: entry i of query_embeddings is the vector query i
\* carried, and otherwise the k-th vector the capability returned, query i
\* being the k-th query that lacks an embedding.
C17_AsStated ==
    \A p \in live :
        LET c == calls[p] IN
        (QuerySent(c) /\ ~c.single) =>
            LET sent == c.requests[1].query_embeddings IN
            /\ Len(sent) = Len(c.given)
            /\ \A i \in 1..Len(sent) :
                  IF IsPresent(c.given[i].embedding)
                  THEN sent[i] = c.given[i].embedding
                  ELSE /\ LackingUpTo(c.given, i) <= Len(c.vectors)
                       /\ sent[i] = Some(c.vectors[LackingUpTo(c.given, i)])

\* C17, amended: entry i of query_embeddings is the vector query i carried,
\* and otherwise the k-th vector the capability returned, query i being the
\* k-th query that lacks an embedding; it is absent when the capability
\* returned fewer than k vectors.
C17_QueryEmbeddings ==
    \A p \in live :
        LET c == calls[p] IN
        QuerySent(c) =>
            LET sent == c.requests[1].query_embeddings IN
            /\ Len(sent) = Len(c.given)
            /\ \A i \in 1..Len(sent) :
                  IF IsPresent(c.given[i].embedding)
                  THEN sent[i] = c.given[i].embedding
                  ELSE IF LackingUpTo(c.given, i) <= Len(c.vectors)
                  THEN sent[i] = Some(c.vectors[LackingUpTo(c.given, i)])
                  ELSE sent[i] = Absent

\* A batch of a raw vector and a text: the second entry is the first (and
\* only) vector the capability returned.
C17_Witness ==
    \E p \in live :
        /\ QuerySent(calls[p])
        /\ calls[p].query.arr = <<JsVector(<<1, 2>>), JsString("y")>>
        /\ calls[p].vectors = <<(<<8>>)>>
        /\ calls[p].requests[1].query_embeddings =
              <<Some(<<1, 2>>), Some(<<8>>)>>

\* With the initialization failed, an operation of the client has done
\* nothing, and either still awaits initPromise or has thrown its error.
FailedClient ==
    initPromise = "rejected" =>
        \A p \in live :
            LET c == calls[p] IN
            c.op \in ClientOps =>
                /\ ~Acted(c)
                /\ c.pc \in {"awaitInit", "threw"}
                /\ c.pc = "threw" => c.error = <<"initialization failed">>

\* A failed initialization stays failed.
StaysFailed == initPromise = "rejected" => initPromise' = "rejected"

\* C18: once the initialization has failed, every public operation fails
\* with the initialization error, having issued no request and invoked no
\* capability, however often and in whatever order operations are called;
\* the initialization is not retried.
C18_FailedIsTerminal == [](FailedClient) /\ [][StaysFailed]_vars

\* A query called on the failed client has thrown the initialization error.
C18_Witness ==
    \E p \in live :
        /\ initPromise = "rejected"
        /\ calls[p].op = "queryDocuments"
        /\ calls[p].pc = "threw"
        /\ calls[p].error = <<"initialization failed">>
        /\ calls[p].requests = <<>>

\* C19: when computeEmbeddings throws its missing-content error, generate
\* has not been invoked, the documents are as they were given (no embedding
\* filled in, not even for the valid ones that lack one), and the call has
\* handed no request to the transport.
C19_FailsBeforeEffects ==
    \A p \in live :
        LET c == calls[p] IN
        MissingContentFailed(c) =>
            /\ c.generated = <<>>
            /\ c.documents = c.given
            /\ c.requests = <<>>

\* addDocuments has failed on a batch of a valid document that lacks an
\* embedding and a document with neither contents nor embedding.
C19_Witness ==
    \E p \in live :
        /\ calls[p].op = "addDocuments"
        /\ MissingContentFailed(calls[p])
        /\ Len(calls[p].given) = 2
        /\ calls[p].given[1].contents = Some("x")
        /\ calls[p].given[1].embedding = Absent
        /\ calls[p].given[2].contents = Absent
        /\ calls[p].given[2].embedding = Absent
        /\ calls[p].documents[1].embedding = Absent

\* The vector written to document i of the batch: the k-th returned one, i
\* being the k-th document that lacked an embedding, when there is one.
Written(c, i) ==
    IF LackingUpTo(c.given, i) <= Len(c.vectors)
    THEN Some(c.vectors[LackingUpTo(c.given, i)]) ELSE Absent

\* The documents of the call are those it was given, with nothing but the
\* embeddings that lacked written.
FilledInPlace(c) ==
    /\ Len(c.documents) = Len(c.given)
    /\ \A i \in 1..Len(c.given) :
          c.documents[i] =
             IF IsPresent(c.given[i].embedding) THEN c.given[i]
             ELSE [c.given[i] EXCEPT !.embedding = Written(c, i)]

\* A queryDocuments call that has returned its bundles.
QueryReturned(c) == c.op = "queryDocuments" /\ c.pc = "returned"

\* C20 as stated: computeEmbeddings returns the documents it was given, the
\* embeddings filled in place; after a successful queryDocuments the
\* queryDoc of bundle i carries an embedding, equal to query_embeddings[i],
\* beside its contents, and a QueryDoc object the caller supplied without
\* an embedding has the generated embedding set on it.
C20_AsStated ==
    \A p \in live :
        LET c == calls[p] IN
        /\ Resolved(c) => FilledInPlace(c)
        /\ QueryReturned(c) =>
              \A i \in 1..Len(c.result.bundles) :
                 LET queryDoc == c.result.bundles[i].queryDoc[1] IN
                 /\ IsPresent(queryDoc.embedding)
                 /\ queryDoc.embedding = c.requests[1].query_embeddings[i]
                 /\ queryDoc.contents = c.given[i].contents
                 /\ toArray(c.query)[i].tag = "object" =>
                       /\ c.documents[i] = queryDoc
                       /\ IsPresent(c.documents[i].embedding)

\* C20, amended: computeEmbeddings returns the documents it was given, the
\* embeddings filled in place; after a successful queryDocuments the
\* embedding of the queryDoc of bundle i is query_embeddings[i] (for a text
\* query beside its contents), and a QueryDoc object the caller supplied
\* without an embedding has been written to: the vector generated for it,
\* or nothing where the capability returned too few vectors, and then the
\* embedding of the queryDoc and the entry of query_embeddings are absent.
C20_InPlace ==
    \A p \in live :
        LET c == calls[p] IN
        /\ Resolved(c) => FilledInPlace(c)
        /\ QueryReturned(c) =>
              \A i \in 1..Len(c.result.bundles) :
                 LET queryDoc == c.result.bundles[i].queryDoc[1] IN
                 /\ queryDoc.embedding = c.requests[1].query_embeddings[i]
                 /\ queryDoc.contents = c.given[i].contents
                 /\ ~IsPresent(c.given[i].embedding) =>
                       queryDoc.embedding = Written(c, i)
                 /\ toArray(c.query)[i].tag = "object" =>
                       c.documents[i] = queryDoc

\* A query by a QueryDoc object with contents and no embedding has
\* returned: the object carries the generated vector beside its contents.
C20_Witness ==
    \E p \in live :
        /\ QueryReturned(calls[p])
        /\ calls[p].query =
              JsObject(MakeDoc(Absent, Absent, Some("x"), Absent))
        /\ calls[p].result.kind = "bundle"
        /\ calls[p].result.bundles[1].queryDoc =
              Some(MakeDoc(Absent, Some(<<7>>), Some("x"), Absent))
        /\ calls[p].requests[1].query_embeddings = <<Some(<<7>>)>>

====
